---- MODULE Spec2Model ----
(***************************************************************************)
(* Model of the tp-dashboard briefing renderer and of the Dashboard        *)
(* component around it: the requests for the briefing, the cards and the   *)
(* source feed of the latest revision, the action items, the notes and the *)
(* browser's store.                                                        *)
(*                                                                         *)
(* The repository holds three successive revisions of one component:       *)
(*   r1  src/unnamed/part_001   (earliest)                                 *)
(*   r2  src/app/page.tsx                                                  *)
(*   r3  src/unnamed/part_000   (latest)                                   *)
(* A JavaScript string is modelled as a sequence of one-character strings; *)
(* every regular expression of the source is modelled by a scanner that    *)
(* does what the JavaScript engine does on that expression.                *)
(***************************************************************************)
EXTENDS Integers, Sequences, FiniteSets, TLC

VARIABLES revision, pc,
          \* the renderer
          summary, sections, text, blocks,
          \* the briefing and the requests for it
          briefing, loading, refreshing, requests, sourceFilter,
          \* action items, notes and the browser's store
          actionItems, notes, localStorage, storageAccess, isInitialMount,
          timeouts, notesCleanup, changed, now, uncaught

rendererVars == <<summary, sections, text, blocks>>

fetchVars == <<briefing, loading, refreshing, requests, sourceFilter>>

storeVars == <<actionItems, notes, localStorage, storageAccess, isInitialMount,
               timeouts, notesCleanup, changed, now, uncaught>>

vars == <<revision, pc, rendererVars, fetchVars, storeVars>>

----------------------------------------------------------------------------
(* The state of the component as constructed: every specification below      *)
(* moves one part of the state and leaves the other parts as constructed.    *)

\* useState<BriefingData | null>(null)
Null == [tag |-> "null"]

NoBody == [tag |-> "none"]

\* the two call sites of fetchBriefing
Callers == {"load", "refresh"}

Request(state, body) == [state |-> state, body |-> body]

\* const LS_KEY = "tp-action-items"
LS_KEY == "tp-action-items"

\* const LS_NOTES_KEY = "tp-notes"
LS_NOTES_KEY == "tp-notes"

RendererIdle == summary = <<>> /\ sections = <<>> /\ text = <<>> /\ blocks = <<>>

\* useState(null), useState(true), useState(false), useState("all"); nothing
\* requested
FetchIdle ==
    /\ briefing = Null
    /\ loading = TRUE
    /\ refreshing = FALSE
    /\ sourceFilter = "all"
    /\ requests = [c \in Callers |-> Request("idle", NoBody)]

\* useState([]), useState(""), useRef(true); an empty store, no timer
StoreIdle ==
    /\ actionItems = <<>>
    /\ notes = <<>>
    /\ localStorage = [k \in {LS_KEY, LS_NOTES_KEY} |-> Null]
    /\ storageAccess = "granted"
    /\ isInitialMount = TRUE
    /\ timeouts = {}
    /\ notesCleanup = 0
    /\ changed = {}
    /\ now = 1
    /\ uncaught = FALSE

----------------------------------------------------------------------------
(* Characters *)

NL == "\n"

CR == "\r"

TAB == "\t"

\* U+2022, the bullet glyph of formatBullets
BulletGlyph == "u2022"

\* U+2191 and U+2193, the arrows of highlightNumbers
UpArrow == "u2191"

DownArrow == "u2193"

LowerLetters == <<"a", "b", "c", "d", "e", "f", "g", "h", "i", "j", "k", "l", "m", "n", "o", "p", "q", "r", "s", "t", "u", "v", "w", "x", "y", "z">>

UpperLetters == <<"A", "B", "C", "D", "E", "F", "G", "H", "I", "J", "K", "L", "M", "N", "O", "P", "Q", "R", "S", "T", "U", "V", "W", "X", "Y", "Z">>

Range(f) == {f[i] : i \in DOMAIN f}

LowerSet == Range(LowerLetters)

UpperSet == Range(UpperLetters)

Digits == {"0", "1", "2", "3", "4", "5", "6", "7", "8", "9"}

\* \s of the regular expressions, and the characters String.prototype.trim removes
IsSpace(c) == c \in {" ", TAB, NL, CR}

\* \d
IsDigit(c) == c \in Digits

\* \w
IsWord(c) == c \in LowerSet \cup UpperSet \cup Digits \cup {"_"}

\* . (any character but a line terminator)
IsDot(c) == c \notin {NL, CR}

LetterIndex(c, letters) == CHOOSE i \in DOMAIN letters : letters[i] = c

UpperChar(c) == IF c \in LowerSet THEN UpperLetters[LetterIndex(c, LowerLetters)] ELSE c

LowerChar(c) == IF c \in UpperSet THEN LowerLetters[LetterIndex(c, UpperLetters)] ELSE c

----------------------------------------------------------------------------
(* String primitives *)

\* String.prototype.toUpperCase
ToUpperCase(s) == [i \in 1..Len(s) |-> UpperChar(s[i])]

RECURSIVE SkipSpace(_, _)
\* first index >= i of s that holds no whitespace (Len(s)+1 when there is none)
SkipSpace(s, i) == IF i <= Len(s) /\ IsSpace(s[i]) THEN SkipSpace(s, i + 1) ELSE i

RECURSIVE SkipSpaceBack(_, _)
\* last index <= i of s that holds no whitespace (0 when there is none)
SkipSpaceBack(s, i) == IF i >= 1 /\ IsSpace(s[i]) THEN SkipSpaceBack(s, i - 1) ELSE i

\* String.prototype.trim
Trim(s) == SubSeq(s, SkipSpace(s, 1), SkipSpaceBack(s, Len(s)))

\* String.prototype.includes
Includes(s, key) ==
    \/ key = <<>>
    \/ \E i \in 0..(Len(s) - Len(key)) : s[i + 1] = key[1] /\ SubSeq(s, i + 1, i + Len(key)) = key

\* String.prototype.startsWith
StartsWith(s, p) == Len(s) >= Len(p) /\ SubSeq(s, 1, Len(p)) = p

MinOf(S) == CHOOSE x \in S : \A y \in S : x <= y

\* the k-th smallest element of a finite set of integers
Nth(S, k) == CHOOSE x \in S : Cardinality({y \in S : y <= x}) = k

\* the pieces of s between the cuts; cut k removes s[starts k .. ends k]
Pieces(s, starts, ends) ==
    LET n == Cardinality(starts)
    IN [k \in 1..(n + 1) |->
          SubSeq(s, IF k = 1 THEN 1 ELSE Nth(ends, k - 1) + 1,
                    IF k = n + 1 THEN Len(s) ELSE Nth(starts, k) - 1)]

\* String.prototype.split("\n")
SplitLines(s) ==
    LET at == {i \in 1..Len(s) : s[i] = NL}
    IN Pieces(s, at, at)

RECURSIVE JoinFrom(_, _, _)
JoinFrom(parts, sep, i) ==
    IF i > Len(parts) THEN <<>>
    ELSE IF i = Len(parts) THEN parts[i]
    ELSE parts[i] \o <<sep>> \o JoinFrom(parts, sep, i + 1)

\* Array.prototype.join("\n")
JoinLines(parts) == JoinFrom(parts, NL, 1)

\* .replace(/\*+/g, "")
StripAsterisks(s) == SelectSeq(s, LAMBDA c : c # "*")

\* markdown.split(/###\s+/): a match starts at every "###" that whitespace follows
\* (two matches never overlap) and takes the whole run of whitespace
SplitHeading(s) ==
    LET starts == {i \in 1..(Len(s) - 3) :
                     s[i] = "#" /\ s[i + 1] = "#" /\ s[i + 2] = "#" /\ IsSpace(s[i + 3])}
        ends == {SkipSpace(s, i + 3) - 1 : i \in starts}
    IN Pieces(s, starts, ends)

----------------------------------------------------------------------------
(* The label tables *)

QUICK_BRIEF == <<"Q", "U", "I", "C", "K", " ", "B", "R", "I", "E", "F">>

COMMUNITY_PULSE == <<"C", "O", "M", "M", "U", "N", "I", "T", "Y", " ", "P", "U", "L", "S", "E">>

KEY_DEVELOPMENTS == <<"K", "E", "Y", " ", "D", "E", "V", "E", "L", "O", "P", "M", "E", "N", "T", "S">>

WHAT_THIS_MEANS_FOR_TP == <<"W", "H", "A", "T", " ", "T", "H", "I", "S", " ", "M", "E", "A", "N", "S", " ", "F", "O", "R", " ", "T", "P">>

\* part_001: sectionMap (label -> icon); an unmatched title gets the clipboard icon
sectionMap ==
    << [key |-> COMMUNITY_PULSE, icon |-> "satellite", gradient |-> "none"],
       [key |-> KEY_DEVELOPMENTS, icon |-> "bolt", gradient |-> "none"],
       [key |-> WHAT_THIS_MEANS_FOR_TP, icon |-> "target", gradient |-> "none"] >>

\* page.tsx: SECTION_CONFIG, in declaration order
SECTION_CONFIG_r2 ==
    << [key |-> COMMUNITY_PULSE, icon |-> "satellite", gradient |-> "from-amber-500/10 to-transparent"],
       [key |-> KEY_DEVELOPMENTS, icon |-> "bolt", gradient |-> "from-orange-500/10 to-transparent"],
       [key |-> WHAT_THIS_MEANS_FOR_TP, icon |-> "target", gradient |-> "from-amber-600/10 to-transparent"] >>

\* part_000: SECTION_CONFIG, in declaration order
SECTION_CONFIG_r3 ==
    << [key |-> QUICK_BRIEF, icon |-> "bolt", gradient |-> "from-amber-400/10 to-orange-500/5"],
       [key |-> COMMUNITY_PULSE, icon |-> "satellite", gradient |-> "from-amber-500/10 to-transparent"],
       [key |-> KEY_DEVELOPMENTS, icon |-> "key", gradient |-> "from-orange-500/10 to-transparent"],
       [key |-> WHAT_THIS_MEANS_FOR_TP, icon |-> "target", gradient |-> "from-amber-600/10 to-transparent"] >>

SectionConfig(rev) ==
    CASE rev = "r1" -> sectionMap
      [] rev = "r2" -> SECTION_CONFIG_r2
      [] rev = "r3" -> SECTION_CONFIG_r3

\* the entries of the table whose key the upper-cased title includes
MatchingEntries(title, config) == {k \in DOMAIN config : Includes(ToUpperCase(title), config[k].key)}

\* a plausible slip: the last matching entry wins
FindEntry_last(title, config) ==
    LET hits == MatchingEntries(title, config)
    IN IF hits = {} THEN 0 ELSE CHOOSE k \in hits : \A j \in hits : j <= k

\* Object.entries(config).find(([key]) => title.toUpperCase().includes(key)):
\* the index of the first matching entry in declaration order, 0 for undefined
FindEntry(title, config) ==
    LET hits == MatchingEntries(title, config)
    IN IF hits = {} THEN 0 ELSE CHOOSE k \in hits : \A j \in hits : k <= j

\* a plausible slip: the decoration is not stripped
HeadingTitle_keepAsterisks(raw) == Trim(raw)

\* lines[0].replace(/\*+/g, "").trim()
HeadingTitle(raw) == Trim(StripAsterisks(raw))

----------------------------------------------------------------------------
(* parseSections, revision r1 (part_001) *)

Section(title, content, icon, gradient) ==
    [title |-> title, content |-> content, icon |-> icon, gradient |-> gradient]

\* one iteration of the loop over parts
ParsePart_r1(acc, part) ==
    IF Trim(part) = <<>> THEN acc
    ELSE LET lines == SplitLines(Trim(part))
             title == HeadingTitle(lines[1])
             content == Trim(JoinLines(Tail(lines)))
             m == FindEntry(title, sectionMap)
             icon == IF m # 0 THEN sectionMap[m].icon ELSE "clipboard"
         IN IF content # <<>> THEN Append(acc, Section(title, content, icon, "none")) ELSE acc

RECURSIVE FoldParts_r1(_, _, _)
FoldParts_r1(parts, i, acc) ==
    IF i > Len(parts) THEN acc ELSE FoldParts_r1(parts, i + 1, ParsePart_r1(acc, parts[i]))

parseSections_r1(markdown) == FoldParts_r1(SplitHeading(markdown), 1, <<>>)

----------------------------------------------------------------------------
(* parseSections, revision r2 (page.tsx) *)

\* a plausible slip: the content test is dropped
ParsePart_r2_noContentTest(acc, part) ==
    IF Trim(part) = <<>> THEN acc
    ELSE LET lines == SplitLines(Trim(part))
             title == HeadingTitle(lines[1])
             content == Trim(JoinLines(Tail(lines)))
             m == FindEntry(title, SECTION_CONFIG_r2)
         IN IF m # 0
            THEN Append(acc, Section(SECTION_CONFIG_r2[m].key, content,
                                     SECTION_CONFIG_r2[m].icon, SECTION_CONFIG_r2[m].gradient))
            ELSE acc

\* a plausible slip: the content is not trimmed
ParsePart_r2_untrimmedContent(acc, part) ==
    IF Trim(part) = <<>> THEN acc
    ELSE LET lines == SplitLines(Trim(part))
             title == HeadingTitle(lines[1])
             content == JoinLines(Tail(lines))
             m == FindEntry(title, SECTION_CONFIG_r2)
         IN IF content # <<>> /\ m # 0
            THEN Append(acc, Section(SECTION_CONFIG_r2[m].key, content,
                                     SECTION_CONFIG_r2[m].icon, SECTION_CONFIG_r2[m].gradient))
            ELSE acc

\* one iteration of the loop over parts
ParsePart_r2(acc, part) ==
    IF Trim(part) = <<>> THEN acc
    ELSE LET lines == SplitLines(Trim(part))
             title == HeadingTitle(lines[1])
             content == Trim(JoinLines(Tail(lines)))
             m == FindEntry(title, SECTION_CONFIG_r2)
         IN IF content # <<>> /\ m # 0
            THEN Append(acc, Section(SECTION_CONFIG_r2[m].key, content,
                                     SECTION_CONFIG_r2[m].icon, SECTION_CONFIG_r2[m].gradient))
            ELSE acc

RECURSIVE FoldParts_r2(_, _, _)
FoldParts_r2(parts, i, acc) ==
    IF i > Len(parts) THEN acc ELSE FoldParts_r2(parts, i + 1, ParsePart_r2(acc, parts[i]))

parseSections_r2(markdown) == FoldParts_r2(SplitHeading(markdown), 1, <<>>)

----------------------------------------------------------------------------
(* parseSections, revision r3 (part_000) *)

NoMatch == <<"no-match">>

RECURSIVE CountHashes(_, _)
CountHashes(line, i) == IF i <= Len(line) /\ line[i] = "#" THEN CountHashes(line, i + 1) ELSE i - 1

\* last index of the run of non-terminator characters that starts at i
DotRunEnd(line, i) ==
    LET stops == {j \in i..Len(line) : ~IsDot(line[j])}
    IN IF stops = {} THEN Len(line) ELSE MinOf(stops) - 1

\* the expression with the marker fixed to "###": /^###\s+(.+)/
headerMatch_level3Only(line) ==
    LET h == CountHashes(line, 1)
        afterWs == SkipSpace(line, h + 1)
        starts == {j \in (h + 2)..afterWs : j <= Len(line) /\ IsDot(line[j])}
    IN IF h # 3 \/ starts = {} THEN NoMatch
       ELSE LET j == CHOOSE k \in starts : \A k2 \in starts : k2 <= k
            IN SubSeq(line, j, DotRunEnd(line, j))

\* line.match(/^#{1,3}\s+(.+)/): the captured group, or NoMatch.
\* \s+ is greedy and gives characters back until (.+) can take one.
headerMatch(line) ==
    LET h == CountHashes(line, 1)
        afterWs == SkipSpace(line, h + 1)
        \* positions where (.+) may start: after at least one whitespace character
        starts == {j \in (h + 2)..afterWs : j <= Len(line) /\ IsDot(line[j])}
    IN IF h < 1 \/ h > 3 \/ starts = {} THEN NoMatch
       ELSE LET j == CHOOSE k \in starts : \A k2 \in starts : k2 <= k
            IN SubSeq(line, j, DotRunEnd(line, j))

\* the block that closes the section being collected (it occurs twice in the source)
Flush_r3(acc, currentTitle, currentContent) ==
    IF currentTitle # <<>> /\ Len(currentContent) > 0
    THEN LET trimmedContent == Trim(JoinLines(currentContent))
             m == FindEntry(currentTitle, SECTION_CONFIG_r3)
         IN IF m # 0 /\ trimmedContent # <<>>
            THEN Append(acc, Section(SECTION_CONFIG_r3[m].key, trimmedContent,
                                     SECTION_CONFIG_r3[m].icon, SECTION_CONFIG_r3[m].gradient))
            ELSE acc
    ELSE acc

RECURSIVE FoldLines_r3(_, _, _, _, _)
FoldLines_r3(lines, i, acc, currentTitle, currentContent) ==
    IF i > Len(lines) THEN Flush_r3(acc, currentTitle, currentContent)
    ELSE LET hm == headerMatch(lines[i])
         IN IF hm # NoMatch
            THEN FoldLines_r3(lines, i + 1, Flush_r3(acc, currentTitle, currentContent),
                              HeadingTitle(hm), <<>>)
            ELSE FoldLines_r3(lines, i + 1, acc, currentTitle, Append(currentContent, lines[i]))

parseSections_r3(markdown) == FoldLines_r3(SplitLines(markdown), 1, <<>>, <<>>, <<>>)

parseSections(rev, markdown) ==
    CASE rev = "r1" -> parseSections_r1(markdown)
      [] rev = "r2" -> parseSections_r2(markdown)
      [] rev = "r3" -> parseSections_r3(markdown)

----------------------------------------------------------------------------
(* Inputs of the section classifier *)

Revisions == {"r1", "r2", "r3"}

MaxLines == 3

SummaryLines ==
    { <<"#", "#", "#", " ", "K", "E", "Y", " ", "D", "E", "V", "E", "L", "O", "P", "M", "E", "N", "T", "S">>,
      <<"#", "#", " ", "*", "*", "C", "o", "m", "m", "u", "n", "i", "t", "y", " ", "P", "u", "l", "s", "e", "*", "*">>,
      <<"#", "#", "#", " ", "K", "E", "Y", " ", "D", "E", "V", "E", "L", "O", "P", "M", "E", "N", "T", "S", " ", "C", "O", "M", "M", "U", "N", "I", "T", "Y", " ", "P", "U", "L", "S", "E">>,
      <<"#", "#", "#", " ", "N", "o", "t", "e", "s">>,
      <<"S", "o", "m", "e", "t", "h", "i", "n", "g", " ", "h", "a", "p", "p", "e", "n", "e", "d">>,
      <<>>,
      <<"K", "E", "Y", " ", "D", "E", "V", "E", "L", "O", "P", "M", "E", "N", "T", "S">>,
      <<" ", " ", "-", " ", "i", "t", "e", "m", " ", " ">>,
      <<"#", " ", "Q", "U", "I", "C", "K", " ", "B", "R", "I", "E", "F">> }

\* the summaries made of 1..MaxLines lines
Summaries == UNION { {JoinLines(ls) : ls \in [1..n -> SummaryLines]} : n \in 1..MaxLines }

----------------------------------------------------------------------------
(* The section classifier run on a summary *)

InitParse ==
    /\ revision \in Revisions
    /\ summary \in Summaries
    /\ sections = <<>>
    /\ pc = "fetched"
    /\ text = <<>>
    /\ blocks = <<>>
    /\ FetchIdle
    /\ StoreIdle

\* part_001: const sections = parseSections(briefing.summary)
Render_r1 ==
    /\ revision = "r1"
    /\ pc = "fetched"
    /\ sections' = parseSections_r1(summary)
    /\ pc' = "rendered"
    /\ UNCHANGED <<revision, summary, text, blocks, fetchVars, storeVars>>

\* page.tsx: const sections = parseSections(briefing.summary)
Render_r2 ==
    /\ revision = "r2"
    /\ pc = "fetched"
    /\ sections' = parseSections_r2(summary)
    /\ pc' = "rendered"
    /\ UNCHANGED <<revision, summary, text, blocks, fetchVars, storeVars>>

\* part_000: const sections = parseSections(briefing.summary)
Render_r3 ==
    /\ revision = "r3"
    /\ pc = "fetched"
    /\ sections' = parseSections_r3(summary)
    /\ pc' = "rendered"
    /\ UNCHANGED <<revision, summary, text, blocks, fetchVars, storeVars>>

NextParse == Render_r1 \/ Render_r2 \/ Render_r3

SpecParse == InitParse /\ [][NextParse]_vars

----------------------------------------------------------------------------
(* The cards of the latest revision                                         *)

\* allSections.find(s => s.title === "QUICK BRIEF"): the empty list stands for
\* undefined, the list of one section for the section found
quickBrief(allSections) ==
    LET found == {i \in DOMAIN allSections : allSections[i].title = QUICK_BRIEF}
    IN IF found = {} THEN <<>> ELSE <<allSections[MinOf(found)]>>

\* allSections.filter(s => s.title !== "QUICK BRIEF")
extendedSections(allSections) ==
    SelectSeq(allSections, LAMBDA sec : sec.title # QUICK_BRIEF)

\* the sections the page shows, from top to bottom: {quickBrief && <section>},
\* then one card for each extended section
Cards(allSections) == quickBrief(allSections) \o extendedSections(allSections)

\* the most headings of a summary of the cards specification
MaxCards == 3

CardHeadings ==
    { <<"#", " ", "Q", "U", "I", "C", "K", " ", "B", "R", "I", "E", "F">>,
      <<"#", "#", " ", "K", "E", "Y", " ", "D", "E", "V", "E", "L", "O", "P", "M", "E", "N", "T", "S">>,
      <<"#", "#", "#", " ", "N", "o", "t", "e", "s">> }

CardBodies == { <<"a">>, <<"-", " ", "b">> }

\* a heading line and the line of its body
CardParts == { <<h, b>> : h \in CardHeadings, b \in CardBodies }

\* the summaries made of 1..MaxCards headings, each with a body
CardSummaries ==
    UNION { {JoinLines([k \in 1..(2 * n) |-> ps[(k + 1) \div 2][2 - (k % 2)]]) :
               ps \in [1..n -> CardParts]} : n \in 1..MaxCards }

InitCards ==
    /\ revision = "r3"
    /\ summary \in CardSummaries
    /\ sections = <<>>
    /\ pc = "fetched"
    /\ text = <<>>
    /\ blocks = <<>>
    /\ FetchIdle
    /\ StoreIdle

SpecCards == InitCards /\ [][Render_r3]_vars

----------------------------------------------------------------------------
(* highlightNumbers and formatBullets (page.tsx and part_000 agree on both   *)
(* but for the CSS class of the paragraph, which is not modelled)          *)

EMPHASIS_OPEN == <<"<", "s", "p", "a", "n", " ", "c", "l", "a", "s", "s", "=", "\"", "t", "e", "x", "t", "-", "w", "h", "i", "t", "e", " ", "f", "o", "n", "t", "-", "s", "e", "m", "i", "b", "o", "l", "d", "\"", ">">>

HIGHLIGHT_OPEN == <<"<", "s", "p", "a", "n", " ", "c", "l", "a", "s", "s", "=", "\"", "t", "e", "x", "t", "-", "a", "m", "b", "e", "r", "-", "4", "0", "0", " ", "f", "o", "n", "t", "-", "m", "e", "d", "i", "u", "m", " ", "t", "a", "b", "u", "l", "a", "r", "-", "n", "u", "m", "s", "\"", ">">>

SPAN_CLOSE == <<"<", "/", "s", "p", "a", "n", ">">>

\* (?:\+|↑|↓|%|B|K|M|x)
NumberSuffixes == {"+", UpArrow, DownArrow, "%", "B", "K", "M", "x"}

\* the class of the lookbehind (?<![<\w\d#/])
LookbehindGuard(c) == c \in {"<", "#", "/"} \/ IsWord(c)

RECURSIVE DigitRunEnd(_, _)
\* last index of the run of digits that starts at i (i - 1 when there is none)
DigitRunEnd(s, i) == IF i <= Len(s) /\ IsDigit(s[i]) THEN DigitRunEnd(s, i + 1) ELSE i - 1

RECURSIVE DigitCommaRunEnd(_, _)
\* last index of the run [\d,]* that starts at i
DigitCommaRunEnd(s, i) ==
    IF i <= Len(s) /\ (IsDigit(s[i]) \/ s[i] = ",") THEN DigitCommaRunEnd(s, i + 1) ELSE i - 1

\* a plausible slip: the suffix group is missing from the expression
NumberMatchEnd_noSuffix(s, i) ==
    LET e1 == DigitCommaRunEnd(s, i + 1)
        e2 == IF e1 < Len(s) /\ s[e1 + 1] = "." THEN e1 + 1 ELSE e1
    IN DigitRunEnd(s, e2 + 1)

\* last index of the match of \d[\d,]*\.?\d*(?:\+|↑|↓|%|B|K|M|x)? that starts at the
\* digit at i; every quantifier is greedy and nothing after it can fail
NumberMatchEnd(s, i) ==
    LET e1 == DigitCommaRunEnd(s, i + 1)
        e2 == IF e1 < Len(s) /\ s[e1 + 1] = "." THEN e1 + 1 ELSE e1
        e3 == DigitRunEnd(s, e2 + 1)
    IN IF e3 < Len(s) /\ s[e3 + 1] \in NumberSuffixes THEN e3 + 1 ELSE e3

\* the positions where the expression can match: a digit the lookbehind accepts
NumberStarts(html) ==
    {i \in 1..Len(html) : IsDigit(html[i]) /\ (i = 1 \/ ~LookbehindGuard(html[i - 1]))}

RECURSIVE HighlightFrom(_, _, _)
\* the global replace: the next match is the first start at or after from
HighlightFrom(html, starts, from) ==
    LET left == {i \in starts : i >= from}
    IN IF left = {} THEN SubSeq(html, from, Len(html))
       ELSE LET i == MinOf(left)
                e == NumberMatchEnd(html, i)
            IN SubSeq(html, from, i - 1) \o HIGHLIGHT_OPEN \o SubSeq(html, i, e) \o SPAN_CLOSE
                 \o HighlightFrom(html, starts, e + 1)

highlightNumbers(html) == HighlightFrom(html, NumberStarts(html), 1)

\* /^\d+\./.test(trimmed)
IsNumbered(trimmed) ==
    LET e == DigitRunEnd(trimmed, 1)
    IN e >= 1 /\ e < Len(trimmed) /\ trimmed[e + 1] = "."

\* trimmed.replace(/^\d+\.\s*/, "")
StripOrdinal(trimmed) ==
    IF IsNumbered(trimmed)
    THEN SubSeq(trimmed, SkipSpace(trimmed, DigitRunEnd(trimmed, 1) + 2), Len(trimmed))
    ELSE trimmed

\* the positions where "**" stands
StarPairs(s) == {i \in 1..(Len(s) - 1) : s[i] = "*" /\ s[i + 1] = "*"}

\* the first "**" at or after j that (.*?) can reach, 0 when there is none:
\* the lazy group stops at the first pair and cannot cross a line terminator
ClosingPair(s, pairs, j) ==
    LET later == {k \in pairs : k >= j}
    IN IF later = {} THEN 0
       ELSE LET k == MinOf(later)
            IN IF \A m \in j..(k - 1) : IsDot(s[m]) THEN k ELSE 0

RECURSIVE BoldFrom(_, _, _, _)
\* the global replace of /\*\*(.*?)\*\*/: i is where the next match may start,
\* from the start of the text not yet copied
BoldFrom(s, pairs, i, from) ==
    LET left == {k \in pairs : k >= i}
    IN IF left = {} THEN SubSeq(s, from, Len(s))
       ELSE LET o == MinOf(left)
                j == ClosingPair(s, pairs, o + 2)
            IN IF j # 0
               THEN SubSeq(s, from, o - 1) \o EMPHASIS_OPEN \o SubSeq(s, o + 2, j - 1) \o SPAN_CLOSE
                      \o BoldFrom(s, pairs, j + 2, j + 2)
               ELSE BoldFrom(s, pairs, o + 1, from)

\* the same replace without the g flag: the first match only
ReplaceBold_firstOnly(s) ==
    LET pairs == StarPairs(s)
        opens == {k \in pairs : ClosingPair(s, pairs, k + 2) # 0}
    IN IF opens = {} THEN s
       ELSE LET o == MinOf(opens)
                j == ClosingPair(s, pairs, o + 2)
            IN SubSeq(s, 1, o - 1) \o EMPHASIS_OPEN \o SubSeq(s, o + 2, j - 1) \o SPAN_CLOSE
                 \o SubSeq(s, j + 2, Len(s))

\* .replace(/\*\*(.*?)\*\*/g, '<span class="text-white font-semibold">$1</span>')
ReplaceBold(s) == BoldFrom(s, StarPairs(s), 1, 1)

\* trimmed.startsWith("-") || trimmed.startsWith("•")
IsBullet(trimmed) == trimmed # <<>> /\ trimmed[1] \in {"-", BulletGlyph}

\* a plausible slip: the whitespace after the glyph stays
StripGlyph_glyphOnly(formatted) ==
    IF formatted # <<>> /\ formatted[1] \in {"-", BulletGlyph} THEN Tail(formatted) ELSE formatted

\* formatted.replace(/^[-•]\s*/, "")
StripGlyph(formatted) ==
    IF formatted # <<>> /\ formatted[1] \in {"-", BulletGlyph}
    THEN SubSeq(formatted, SkipSpace(formatted, 2), Len(formatted))
    ELSE formatted

NullBlock == [kind |-> "null", html |-> <<>>]

\* a plausible slip: an ordinal line is no bullet (as in part_001)
FormatLine_glyphOnly(line) ==
    LET trimmed == Trim(line)
        formatted == highlightNumbers(ReplaceBold(StripOrdinal(trimmed)))
    IN IF trimmed = <<>> THEN NullBlock
       ELSE IF IsBullet(trimmed) THEN [kind |-> "bullet", html |-> StripGlyph(formatted)]
       ELSE [kind |-> "paragraph", html |-> formatted]

\* the callback of text.split("\n").map: the block of one line
FormatLine(line) ==
    LET trimmed == Trim(line)
        formatted == highlightNumbers(ReplaceBold(StripOrdinal(trimmed)))
        cleanLine == IF IsBullet(trimmed) \/ IsNumbered(trimmed) THEN StripGlyph(formatted) ELSE formatted
    IN IF trimmed = <<>> THEN NullBlock
       ELSE IF IsBullet(trimmed) \/ IsNumbered(trimmed) THEN [kind |-> "bullet", html |-> cleanLine]
       ELSE [kind |-> "paragraph", html |-> formatted]

formatBullets(content) ==
    LET lines == SplitLines(content)
    IN [i \in 1..Len(lines) |-> FormatLine(lines[i])]

----------------------------------------------------------------------------
(* Inputs of the formatter: section contents made of up to MaxTokens tokens *)

MaxTokens == 3

FormatTokens ==
    { <<"-", " ">>,
      <<BulletGlyph>>,
      <<"1", ".", " ">>,
      <<"*", "*">>,
      <<"*", "*", "R", "e", "v", "e", "n", "u", "e", "*", "*">>,
      <<" ", "g", "r", "e", "w", " ", "4", "2", "%">>,
      <<"S", "h", "i", "p", " ", "t", "h", "e", " ", "r", "e", "p", "o", "r", "t">>,
      <<"5", "k">>,
      <<"3", "K">>,
      <<NL>>,
      <<NL, " ", NL>>,
      <<"*", "*", NL, "*", "*">>,
      <<" ">>,
      <<"<", "a", " ", "i", "d", "=", "\"", "2", "\"", ">">>,
      <<"7", "+", " ", "8", "M", " ", "9", "B", " ", "1", UpArrow, " ", "6", DownArrow>> }

RECURSIVE Concat(_, _)
Concat(toks, i) == IF i > Len(toks) THEN <<>> ELSE toks[i] \o Concat(toks, i + 1)

\* a section's content is trimmed and not empty (parseSections keeps no other)
Contents ==
    { t \in UNION { {Concat(toks, 1) : toks \in [1..n -> FormatTokens]} : n \in 1..MaxTokens } :
        t # <<>> /\ Trim(t) = t }

----------------------------------------------------------------------------
(* The formatter run on the content of a section *)

InitFormat ==
    /\ revision \in {"r2", "r3"}
    /\ summary = <<>>
    /\ sections = <<>>
    /\ pc = "rendered"
    /\ text \in Contents
    /\ blocks = <<>>
    /\ FetchIdle
    /\ StoreIdle

\* page.tsx: {formatBullets(section.content)}
Format_r2 ==
    /\ revision = "r2"
    /\ pc = "rendered"
    /\ blocks' = formatBullets(text)
    /\ pc' = "formatted"
    /\ UNCHANGED <<revision, summary, sections, text, fetchVars, storeVars>>

\* part_000: {formatBullets(section.content)}
Format_r3 ==
    /\ revision = "r3"
    /\ pc = "rendered"
    /\ blocks' = formatBullets(text)
    /\ pc' = "formatted"
    /\ UNCHANGED <<revision, summary, sections, text, fetchVars, storeVars>>

NextFormat == Format_r2 \/ Format_r3

SpecFormat == InitFormat /\ [][NextFormat]_vars

----------------------------------------------------------------------------
(* The Dashboard component: the briefing and the requests for it (r1 has    *)
(* the initial load only; the refresh and the source feed came later).      *)
(* A JSON value is a tagged record; res.json() either yields such a value   *)
(* or rejects.  A state setter that the source calls is modelled as         *)
(* setting the state, also when the component is unmounted by then.         *)

\* what data[0] is when the array is empty
Undefined == [tag |-> "undefined"]

\* a BriefingData document; of its fields the summary is kept
Document(s) == [tag |-> "object", summary |-> s]

ArrayOf(items) == [tag |-> "array", items |-> items]

\* Array.isArray(data)
IsArray(data) == data.tag = "array"

\* data[0]
FirstElement(data) == IF Len(data.items) > 0 THEN data.items[1] ELSE Undefined

\* const d = data (no test for an array)
Unwrap_noArrayTest(data) == data

\* const d = Array.isArray(data) ? data[0] : data
Unwrap(data) == IF IsArray(data) THEN FirstElement(data) ELSE data

\* the catch block with a reset of the briefing
OnFetchError_reset(held) == Null

\* catch { /* silently fail on refetch */ }: the briefing after a failed fetch
OnFetchError(held) == held

\* !briefing is false
IsTruthy(value) == value \notin {Null, Undefined}

\* what the component renders: if (loading) ..., if (!briefing) ...
View ==
    IF loading THEN "loading"
    ELSE IF ~IsTruthy(briefing) THEN "placeholder"
    ELSE "dashboard"

\* a response body that is not JSON: res.json() rejects
NotJson == [tag |-> "not-json"]

\* interface SourceItem; of its fields the source is kept
SourceItem(source) == [source |-> source]

\* a BriefingData document with its optional field sources
DocumentWithSources(s, items) == [tag |-> "object", summary |-> s, sources |-> items]

\* const sources = briefing.sources || []
Sources(document) == IF "sources" \in DOMAIN document THEN document.sources ELSE <<>>

\* the tabs of the source feed (latest revision); the labels are left out
FILTER_TABS ==
    << [key |-> "all", sources |-> {}],
       [key |-> "reddit", sources |-> {"reddit"}],
       [key |-> "hackernews", sources |-> {"hackernews"}],
       [key |-> "techcrunch", sources |-> {"techcrunch"}],
       [key |-> "research", sources |-> {"arxiv", "stanford", "deepmind"}],
       [key |-> "consulting", sources |-> {"mckinsey", "bcg", "bain"}] >>

\* FILTER_TABS.filter(tab => tab.key === "all" ||
\*                           sources.some(s => tab.sources.includes(s.source)))
availableFilters(sources) ==
    SelectSeq(FILTER_TABS,
              LAMBDA tab : tab.key = "all"
                           \/ \E i \in DOMAIN sources : sources[i].source \in tab.sources)

\* the source feeds of the briefings the server answers with
SourceFeeds ==
    { <<SourceItem("reddit")>>, <<SourceItem("hackernews"), SourceItem("arxiv")>> }

BriefingSummaries ==
    { <<"#", "#", "#", " ", "K", "E", "Y", " ", "D", "E", "V", "E", "L", "O", "P", "M", "E", "N", "T", "S", NL, "S", "o", "m", "e", "t", "h", "i", "n", "g", " ", "h", "a", "p", "p", "e", "n", "e", "d">>,
      <<"#", " ", "Q", "U", "I", "C", "K", " ", "B", "R", "I", "E", "F", NL, "-", " ", "i", "t", "e", "m">> }

Documents ==
    {Document(s) : s \in BriefingSummaries}
      \cup {DocumentWithSources(<<>>, items) : items \in SourceFeeds}

\* the longest array the server answers with
MaxArray == 2

Arrays == {ArrayOf(items) : items \in UNION {[1..n -> Documents] : n \in 0..MaxArray}}

\* what the server may answer: text that is not JSON, or the JSON null, a
\* document, or an array of documents
Bodies == {NotJson, Null} \cup Documents \cup Arrays

\* the cleanup of the initial-load effect has run: cancelled = true; the
\* earliest revision has no such flag
Cancelled == revision # "r1" /\ pc = "unmounted"

\* setBriefing(data) in the earliest revision, setBriefing(d) in the later ones
Deliver(rev, data) == IF rev = "r1" THEN data ELSE Unwrap(data)

\* the state setters after the await of the caller: the initial-load effect
\* clears loading unless it was cancelled, handleRefresh clears refreshing
AfterFetch(c) ==
    /\ loading' = IF c = "load" /\ ~Cancelled THEN FALSE ELSE loading
    /\ refreshing' = IF c = "refresh" THEN FALSE ELSE refreshing

InitFetch ==
    /\ revision \in {"r2", "r3"}
    /\ pc = "created"
    /\ RendererIdle
    /\ FetchIdle
    /\ StoreIdle

\* the initial-load effect: fetchBriefing().then(...)
LoadEffect ==
    /\ pc = "created"
    /\ pc' = "mounted"
    /\ requests' = [requests EXCEPT !["load"] = Request("sent", NoBody)]
    /\ UNCHANGED <<revision, sourceFilter, briefing, loading, refreshing, rendererVars, storeVars>>

\* handleRefresh without 'if (refreshing) return'
handleRefresh_noGuard ==
    /\ revision # "r1"
    /\ pc = "mounted"
    /\ ~loading /\ IsTruthy(briefing)
    /\ refreshing' = TRUE
    /\ requests' = [requests EXCEPT !["refresh"] = Request("sent", NoBody)]
    /\ UNCHANGED <<revision, sourceFilter, pc, briefing, loading, rendererVars, storeVars>>

\* handleRefresh up to its await; the button is rendered with the briefing
\* (the earliest revision has no refresh)
handleRefresh ==
    /\ revision # "r1"
    /\ pc = "mounted"
    /\ ~loading /\ IsTruthy(briefing)
    /\ ~refreshing
    /\ refreshing' = TRUE
    /\ requests' = [requests EXCEPT !["refresh"] = Request("sent", NoBody)]
    /\ UNCHANGED <<revision, sourceFilter, pc, briefing, loading, rendererVars, storeVars>>

\* await fetch(...) resolves with a response
FetchResolves(c) ==
    /\ requests[c].state = "sent"
    /\ \E body \in Bodies : requests' = [requests EXCEPT ![c] = Request("received", body)]
    /\ UNCHANGED <<revision, sourceFilter, pc, briefing, loading, refreshing, rendererVars, storeVars>>

\* await fetch(...) rejects (network error): the catch block, then the caller
\* goes on
FetchRejects(c) ==
    /\ requests[c].state = "sent"
    /\ requests' = [requests EXCEPT ![c] = Request("failed", NoBody)]
    /\ briefing' = OnFetchError(briefing)
    /\ AfterFetch(c)
    /\ UNCHANGED <<revision, sourceFilter, pc, rendererVars, storeVars>>

\* await res.json() settles: setBriefing(d), or the catch block when the body
\* is not JSON; then the caller goes on
JsonSettles(c) ==
    /\ requests[c].state = "received"
    /\ requests' = [requests EXCEPT ![c] = Request("settled", requests[c].body)]
    /\ briefing' = IF requests[c].body = NotJson THEN OnFetchError(briefing)
                   ELSE Deliver(revision, requests[c].body)
    /\ AfterFetch(c)
    /\ UNCHANGED <<revision, sourceFilter, pc, rendererVars, storeVars>>

\* the component is removed while mounted
UnmountFetch ==
    /\ pc = "mounted"
    /\ pc' = "unmounted"
    /\ UNCHANGED <<revision, sourceFilter, briefing, loading, refreshing, requests, rendererVars, storeVars>>

NextFetch ==
    \/ LoadEffect
    \/ handleRefresh
    \/ \E c \in Callers : FetchResolves(c)
    \/ \E c \in Callers : FetchRejects(c)
    \/ \E c \in Callers : JsonSettles(c)
    \/ UnmountFetch

SpecFetch == InitFetch /\ [][NextFetch]_vars

\* onClick={() => setSourceFilter(tab.key)} of a tab that is shown; the feed
\* is rendered when the briefing has sources
setSourceFilter(key) ==
    /\ pc = "mounted"
    /\ View = "dashboard"
    /\ Len(Sources(briefing)) > 0
    /\ \E i \in DOMAIN availableFilters(Sources(briefing)) :
          availableFilters(Sources(briefing))[i].key = key
    /\ key # sourceFilter
    /\ sourceFilter' = key
    /\ UNCHANGED <<revision, pc, briefing, loading, refreshing, requests, rendererVars, storeVars>>

InitFilter ==
    /\ revision = "r3"
    /\ pc = "created"
    /\ RendererIdle
    /\ FetchIdle
    /\ StoreIdle

NextFilter ==
    \/ NextFetch
    \/ \E i \in DOMAIN FILTER_TABS : setSourceFilter(FILTER_TABS[i].key)

\* the latest revision with its source feed
SpecFilter == InitFilter /\ [][NextFilter]_vars

\* the three revisions of the initial load
InitLoad ==
    /\ revision \in Revisions
    /\ pc = "created"
    /\ RendererIdle
    /\ FetchIdle
    /\ StoreIdle

\* the effect of a mounted component runs, a request sent is answered or
\* fails, and a body received is read to its end
FairLoad ==
    /\ WF_vars(LoadEffect)
    /\ WF_vars(\E c \in Callers : FetchResolves(c) \/ FetchRejects(c))
    /\ WF_vars(\E c \in Callers : JsonSettles(c))

SpecLoadFair == InitLoad /\ [][NextFetch]_vars /\ FairLoad

----------------------------------------------------------------------------
(* The Dashboard component (r2, r3): action items, notes and localStorage.  *)

Quote == "\""

Backslash == "\\"

\* a string held by the store (getItem gives Null for a key that is not set)
Str(chars) == [tag |-> "string", chars |-> chars]

\* interface ActionItem { id: string; text: string; completed: boolean }
ActionItem(id, label, completed) == [id |-> id, text |-> label, completed |-> completed]

DecimalDigits == <<"0", "1", "2", "3", "4", "5", "6", "7", "8", "9">>

RECURSIVE DecimalString(_)
\* Date.now().toString()
DecimalString(n) ==
    IF n < 10 THEN <<DecimalDigits[n + 1]>>
    ELSE DecimalString(n \div 10) \o <<DecimalDigits[(n % 10) + 1]>>

RECURSIVE Escape(_)
\* JSON.stringify of the characters of a string: '"' and '\' get a backslash
Escape(s) ==
    IF s = <<>> THEN <<>>
    ELSE (IF Head(s) \in {Quote, Backslash} THEN <<Backslash, Head(s)>> ELSE <<Head(s)>>)
           \o Escape(Tail(s))

QuoteString(s) == <<Quote>> \o Escape(s) \o <<Quote>>

\* the pieces of the text of an item between its values
ItemOpen == <<"{", "\"", "i", "d", "\"", ":">>

TextKey == <<",", "\"", "t", "e", "x", "t", "\"", ":">>

CompletedKey == <<",", "\"", "c", "o", "m", "p", "l", "e", "t", "e", "d", "\"", ":">>

TrueClose == <<"t", "r", "u", "e", "}">>

FalseClose == <<"f", "a", "l", "s", "e", "}">>

StringifyItem(item) ==
    ItemOpen \o QuoteString(item.id)
      \o TextKey \o QuoteString(item.text)
      \o CompletedKey \o (IF item.completed THEN TrueClose ELSE FalseClose)

\* a value of JSON that is not a list, named by its text; it is a function
\* with the index 0, which no list has
NotList(chars) == [i \in {0} |-> chars]

\* Array.isArray(value)
IsList(value) == 0 \notin DOMAIN value

\* the texts of null and of the empty object
NotListTexts == { <<"n", "u", "l", "l">>, <<"{", "}">> }

\* JSON.stringify(actionItems)
JSONStringify(items) ==
    IF ~IsList(items) THEN items[0] ELSE
    <<"[">> \o JoinFrom([i \in DOMAIN items |-> StringifyItem(items[i])], ",", 1) \o <<"]">>

SyntaxError == [ok |-> FALSE, value |-> <<>>]

Parsed(value) == [ok |-> TRUE, value |-> value]

StartsWithAt(s, i, p) == i + Len(p) - 1 <= Len(s) /\ SubSeq(s, i, i + Len(p) - 1) = p

\* the index of the quote that closes the string literal opened at i, 0 when
\* there is none: the first quote after an even number of backslashes
StringEnd(s, i) ==
    LET backslashes(j) == Cardinality({k \in (i + 1)..(j - 1) : \A m \in k..(j - 1) : s[m] = Backslash})
        closing == {j \in (i + 1)..Len(s) : s[j] = Quote /\ backslashes(j) % 2 = 0}
    IN IF i > Len(s) \/ s[i] # Quote \/ closing = {} THEN 0 ELSE MinOf(closing)

RECURSIVE Unescape(_)
\* the characters a string literal stands for (escapes \" and \\, the only
\* ones JSON.stringify writes for the texts of the dashboard)
Unescape(lit) ==
    IF lit = <<>> THEN <<>>
    ELSE IF Head(lit) = Backslash
         THEN <<lit[2]>> \o Unescape(SubSeq(lit, 3, Len(lit)))
         ELSE <<Head(lit)>> \o Unescape(Tail(lit))

ValidEscapes(lit) ==
    \A k \in DOMAIN lit :
       (lit[k] = Backslash /\ Cardinality({j \in 1..(k - 1) : \A m \in j..(k - 1) : lit[m] = Backslash}) % 2 = 0)
       => (k < Len(lit) /\ lit[k + 1] \in {Quote, Backslash})

\* one object {"id":"..","text":"..","completed":true|false} at index i:
\* the item and the index after it
ParseItemAt(s, i) ==
    LET idAt == i + Len(ItemOpen)
        idEnd == StringEnd(s, idAt)
        textAt == idEnd + 1 + Len(TextKey)
        textEnd == StringEnd(s, textAt)
        flagAt == textEnd + 1 + Len(CompletedKey)
        flag == IF StartsWithAt(s, flagAt, TrueClose) THEN "true"
                ELSE IF StartsWithAt(s, flagAt, FalseClose) THEN "false" ELSE "none"
        idLit == SubSeq(s, idAt + 1, idEnd - 1)
        textLit == SubSeq(s, textAt + 1, textEnd - 1)
    IN IF /\ StartsWithAt(s, i, ItemOpen)
          /\ idEnd # 0
          /\ StartsWithAt(s, idEnd + 1, TextKey)
          /\ textEnd # 0
          /\ StartsWithAt(s, textEnd + 1, CompletedKey)
          /\ flag # "none"
          /\ ValidEscapes(idLit) /\ ValidEscapes(textLit)
       THEN [ok |-> TRUE,
             item |-> ActionItem(Unescape(idLit), Unescape(textLit), flag = "true"),
             next |-> flagAt + Len(IF flag = "true" THEN TrueClose ELSE FalseClose)]
       ELSE [ok |-> FALSE, item |-> ActionItem(<<>>, <<>>, FALSE), next |-> 0]

RECURSIVE ParseItems(_, _, _)
ParseItems(s, i, acc) ==
    LET r == ParseItemAt(s, i)
    IN IF ~r.ok THEN SyntaxError
       ELSE IF r.next = Len(s) /\ s[r.next] = "]" THEN Parsed(Append(acc, r.item))
       ELSE IF r.next < Len(s) /\ s[r.next] = "," THEN ParseItems(s, r.next + 1, Append(acc, r.item))
       ELSE SyntaxError

\* JSON.parse(stored), for the texts JSON.stringify(actionItems) writes and for
\* null and the empty object; any other text is a syntax error
JSONParse(s) ==
    IF s \in NotListTexts THEN Parsed(NotList(s))
    ELSE IF s = <<"[", "]">> THEN Parsed(<<>>)
    ELSE IF Len(s) > 2 /\ s[1] = "[" THEN ParseItems(s, 2, <<>>)
    ELSE SyntaxError

\* the outcome of one of the two load effects: the state to set, if any
NoUpdate == [set |-> FALSE, value |-> <<>>]

Update(value) == [set |-> TRUE, value |-> value]

\* an access to localStorage throws when the browser denies the storage
ReadThrows(access) == access = "denied"

\* setItem also throws when the quota is exceeded
WriteThrows(access) == access \in {"denied", "full"}

\* try { const stored = localStorage.getItem(LS_KEY);
\*       if (stored) setActionItems(JSON.parse(stored)); } catch { }
LoadActionItems(store, access) ==
    IF ReadThrows(access) \/ store[LS_KEY] = Null THEN NoUpdate
    ELSE IF store[LS_KEY].chars = <<>> THEN NoUpdate
    ELSE LET parsed == JSONParse(store[LS_KEY].chars)
         IN IF parsed.ok THEN Update(parsed.value) ELSE NoUpdate

\* try { const stored = localStorage.getItem(LS_NOTES_KEY);
\*       if (stored) setNotes(stored); } catch { }
LoadNotes(store, access) ==
    IF ReadThrows(access) \/ store[LS_NOTES_KEY] = Null THEN NoUpdate
    ELSE IF store[LS_NOTES_KEY].chars = <<>> THEN NoUpdate
    ELSE Update(store[LS_NOTES_KEY].chars)

\* the persist effect without the test of isInitialMount
PersistActionItems_noSkip(first, items, store, access) ==
    IF WriteThrows(access)
    THEN [isInitialMount |-> FALSE, localStorage |-> store, threw |-> TRUE]
    ELSE [isInitialMount |-> FALSE,
          localStorage |-> [store EXCEPT ![LS_KEY] = Str(JSONStringify(items))],
          threw |-> FALSE]

\* the persist effect with the list of an earlier render
PersistActionItems_stale(first, items, store, access) ==
    IF first THEN [isInitialMount |-> FALSE, localStorage |-> store, threw |-> FALSE]
    ELSE IF WriteThrows(access)
    THEN [isInitialMount |-> first, localStorage |-> store, threw |-> TRUE]
    ELSE [isInitialMount |-> first,
          localStorage |-> [store EXCEPT ![LS_KEY] =
                              Str(JSONStringify(IF IsList(items) THEN SubSeq(items, 1, Len(items) - 1)
                                                ELSE <<>>))],
          threw |-> FALSE]

\* if (isInitialMount.current) { isInitialMount.current = false; return; }
\* localStorage.setItem(LS_KEY, JSON.stringify(actionItems));
\* the ref and the store after the effect, and whether setItem threw
PersistActionItems(first, items, store, access) ==
    IF first THEN [isInitialMount |-> FALSE, localStorage |-> store, threw |-> FALSE]
    ELSE IF WriteThrows(access)
    THEN [isInitialMount |-> first, localStorage |-> store, threw |-> TRUE]
    ELSE [isInitialMount |-> first,
          localStorage |-> [store EXCEPT ![LS_KEY] = Str(JSONStringify(items))],
          threw |-> FALSE]

\* the identifier setTimeout returns: one no pending timer has
NewTimeout(pending) == MinOf({n \in 1..(Cardinality(pending) + 1) : \A t \in pending : t.id # n})

\* return () => clearTimeout(timeout), for the identifier the last run returned
ClearTimeout(pending, id) == {t \in pending : t.id # id}

\* the notes effect without its cleanup
PersistNotes_noCleanup(first, value, pending, cleanup) ==
    IF first THEN [timeouts |-> pending, cleanup |-> 0]
    ELSE [timeouts |-> pending \cup {[id |-> NewTimeout(pending), notes |-> value]},
          cleanup |-> NewTimeout(pending)]

\* the cleanup of the last run, then
\* if (isInitialMount.current) return;
\* const timeout = setTimeout(() => localStorage.setItem(LS_NOTES_KEY, notes), 400);
\* the pending timers and the identifier the new cleanup clears (0: no cleanup)
PersistNotes(first, value, pending, cleanup) ==
    LET kept == ClearTimeout(pending, cleanup)
    IN IF first THEN [timeouts |-> kept, cleanup |-> 0]
       ELSE [timeouts |-> kept \cup {[id |-> NewTimeout(kept), notes |-> value]},
             cleanup |-> NewTimeout(kept)]

----------------------------------------------------------------------------
(* Inputs of the storage specification *)

\* the longest list of action items
MaxItems == 2

\* the last value of the clock Date.now() reads
MaxNow == 2

\* what the user types into the action-item field
ActionInputs == { <<" ">>, <<" ", Backslash, Quote, " ">> }

\* what the notes field is changed to
NotesValues == { <<>>, <<"n">>, <<"n", "o">> }

\* what the store holds under LS_KEY when the component mounts: nothing, the
\* empty string, a text that is not JSON, JSON that is not a list, or a list
\* written by an earlier visit
StoredItems ==
    { Null, Str(<<>>), Str(<<"[", "{">>), Str(JSONStringify(<<>>)) }
      \cup { Str(t) : t \in NotListTexts } \cup {
      Str(JSONStringify(<<ActionItem(DecimalString(0), <<Backslash, Quote>>, TRUE)>>)) }

StoredNotes == { Null, Str(<<>>), Str(<<"n">>) }

StorageAccess == {"granted", "denied", "full"}

----------------------------------------------------------------------------
(* The storage effects and the handlers.  A handler sets state; the render   *)
(* that follows runs the effects whose dependency changed (Commit), before   *)
(* the next event is handled.  The form and the notes field are rendered     *)
(* with the briefing; this specification leaves the briefing out and lets    *)
(* the handlers occur at any time after the mount.                           *)

InitStore ==
    /\ revision \in {"r2", "r3"}
    /\ pc = "created"
    /\ RendererIdle
    /\ FetchIdle
    /\ actionItems = <<>>
    /\ notes = <<>>
    /\ localStorage \in {[k \in {LS_KEY, LS_NOTES_KEY} |-> IF k = LS_KEY THEN i ELSE n] :
                           i \in StoredItems, n \in StoredNotes}
    /\ storageAccess \in StorageAccess
    /\ isInitialMount = TRUE
    /\ timeouts = {}
    /\ notesCleanup = 0
    /\ changed = {}
    /\ now = 1
    /\ uncaught = FALSE

\* the four storage effects of the first render, in the order of the source:
\* load the action items, persist them (skipped), load the notes, persist the
\* notes; the effects see the state of the first render, the state they set
\* is rendered next
StorageEffects ==
    /\ pc = "created"
    /\ LET items == LoadActionItems(localStorage, storageAccess)
           p == PersistActionItems(isInitialMount, actionItems, localStorage, storageAccess)
           stored == LoadNotes(localStorage, storageAccess)
           t == PersistNotes(p.isInitialMount, notes, timeouts, notesCleanup)
       IN /\ actionItems' = IF items.set THEN items.value ELSE actionItems
          /\ notes' = IF stored.set THEN stored.value ELSE notes
          /\ changed' = (IF items.set THEN {"actionItems"} ELSE {})
                          \cup (IF stored.set THEN {"notes"} ELSE {})
          /\ isInitialMount' = p.isInitialMount
          /\ localStorage' = p.localStorage
          /\ uncaught' = (uncaught \/ p.threw)
          /\ pc' = IF p.threw THEN "unmounted" ELSE "mounted"
          /\ timeouts' = IF p.threw THEN ClearTimeout(t.timeouts, t.cleanup) ELSE t.timeouts
          /\ notesCleanup' = t.cleanup
    /\ UNCHANGED <<revision, storageAccess, now, rendererVars, fetchVars>>

\* the render after a change of state and its effects: the persist effect when
\* actionItems changed, the notes effect when notes changed.  An exception in
\* an effect is not caught: React removes the component, running the cleanups
Commit ==
    /\ pc = "mounted"
    /\ changed # {}
    /\ LET p == IF "actionItems" \in changed
                THEN PersistActionItems(isInitialMount, actionItems, localStorage, storageAccess)
                ELSE [isInitialMount |-> isInitialMount, localStorage |-> localStorage, threw |-> FALSE]
           t == IF "notes" \in changed
                THEN PersistNotes(p.isInitialMount, notes, timeouts, notesCleanup)
                ELSE [timeouts |-> timeouts, cleanup |-> notesCleanup]
       IN /\ isInitialMount' = p.isInitialMount
          /\ localStorage' = p.localStorage
          /\ uncaught' = (uncaught \/ p.threw)
          /\ pc' = IF p.threw THEN "unmounted" ELSE "mounted"
          /\ timeouts' = IF p.threw THEN ClearTimeout(t.timeouts, t.cleanup) ELSE t.timeouts
          /\ notesCleanup' = t.cleanup
    /\ changed' = {}
    /\ UNCHANGED <<revision, actionItems, notes, storageAccess, now, rendererVars, fetchVars>>

Idle == pc = "mounted" /\ changed = {}

\* handleSubmit / handleAddAction: trim the input, return when it is empty,
\* append { id: Date.now().toString(), text: trimmed, completed: false }
handleAddAction(input) ==
    /\ Idle
    /\ IsList(actionItems)
    /\ Len(actionItems) < MaxItems
    /\ Trim(input) # <<>>
    /\ actionItems' = Append(actionItems, ActionItem(DecimalString(now), Trim(input), FALSE))
    /\ changed' = {"actionItems"}
    /\ UNCHANGED <<revision, pc, notes, localStorage, storageAccess, isInitialMount, timeouts,
                   notesCleanup, now, uncaught, rendererVars, fetchVars>>

\* a toggle that flips every item
toggleActionItem_all(id) ==
    /\ Idle
    /\ IsList(actionItems)
    /\ actionItems' = [i \in DOMAIN actionItems |->
                         [actionItems[i] EXCEPT !.completed = ~actionItems[i].completed]]
    /\ changed' = {"actionItems"}
    /\ UNCHANGED <<revision, pc, notes, localStorage, storageAccess, isInitialMount, timeouts,
                   notesCleanup, now, uncaught, rendererVars, fetchVars>>

\* prev.map(item => item.id === id ? { ...item, completed: !item.completed } : item)
\* the new list is a new array, which is rendered, whatever the id
toggleActionItem(id) ==
    /\ Idle
    /\ IsList(actionItems)
    /\ actionItems' = [i \in DOMAIN actionItems |->
                         IF actionItems[i].id = id
                         THEN [actionItems[i] EXCEPT !.completed = ~actionItems[i].completed]
                         ELSE actionItems[i]]
    /\ changed' = {"actionItems"}
    /\ UNCHANGED <<revision, pc, notes, localStorage, storageAccess, isInitialMount, timeouts,
                   notesCleanup, now, uncaught, rendererVars, fetchVars>>

\* prev.filter(item => item.id !== id)
deleteActionItem(id) ==
    /\ Idle
    /\ IsList(actionItems)
    /\ actionItems' = SelectSeq(actionItems, LAMBDA item : item.id # id)
    /\ changed' = {"actionItems"}
    /\ UNCHANGED <<revision, pc, notes, localStorage, storageAccess, isInitialMount, timeouts,
                   notesCleanup, now, uncaught, rendererVars, fetchVars>>

\* onChange of the notes field: setNotes(e.target.value); setting the value the
\* state already has renders nothing
setNotes(value) ==
    /\ Idle
    /\ value # notes
    /\ notes' = value
    /\ changed' = {"notes"}
    /\ UNCHANGED <<revision, pc, actionItems, localStorage, storageAccess, isInitialMount,
                   timeouts, notesCleanup, now, uncaught, rendererVars, fetchVars>>

\* the callback of a pending timer: localStorage.setItem(LS_NOTES_KEY, notes)
\* with the notes of the render that set the timer; an exception in it is not
\* caught
TimeoutFires(t) ==
    /\ changed = {}
    /\ t \in timeouts
    /\ timeouts' = timeouts \ {t}
    /\ IF WriteThrows(storageAccess)
       THEN localStorage' = localStorage /\ uncaught' = TRUE
       ELSE localStorage' = [localStorage EXCEPT ![LS_NOTES_KEY] = Str(t.notes)] /\ uncaught' = uncaught
    /\ UNCHANGED <<revision, pc, actionItems, notes, storageAccess, isInitialMount, notesCleanup,
                   changed, now, rendererVars, fetchVars>>

\* the clock Date.now() reads advances
Tick ==
    /\ now < MaxNow
    /\ now' = now + 1
    /\ UNCHANGED <<revision, pc, actionItems, notes, localStorage, storageAccess, isInitialMount,
                   timeouts, notesCleanup, changed, uncaught, rendererVars, fetchVars>>

\* the component is removed: the cleanup of the notes effect clears its timer
UnmountStore ==
    /\ Idle
    /\ pc' = "unmounted"
    /\ timeouts' = ClearTimeout(timeouts, notesCleanup)
    /\ UNCHANGED <<revision, actionItems, notes, localStorage, storageAccess, isInitialMount,
                   notesCleanup, changed, now, uncaught, rendererVars, fetchVars>>

\* the action items are rendered with the briefing: items.length, items.filter
\* and items.map; on a value that is not a list they throw, nothing catches
\* the exception and React removes the component
RenderActionItems ==
    /\ Idle
    /\ ~IsList(actionItems)
    /\ uncaught' = TRUE
    /\ pc' = "unmounted"
    /\ timeouts' = ClearTimeout(timeouts, notesCleanup)
    /\ UNCHANGED <<revision, actionItems, notes, localStorage, storageAccess, isInitialMount,
                   notesCleanup, changed, now, rendererVars, fetchVars>>

\* the ids the handlers are called with: those of the stored item and of the
\* items added, in the list or not
ItemIds == {DecimalString(n) : n \in 0..MaxNow}

NextStore ==
    \/ StorageEffects
    \/ Commit
    \/ \E input \in ActionInputs : handleAddAction(input)
    \/ \E id \in ItemIds : toggleActionItem(id)
    \/ \E id \in ItemIds : deleteActionItem(id)
    \/ RenderActionItems
    \/ \E value \in NotesValues : setNotes(value)
    \/ \E t \in timeouts : TimeoutFires(t)
    \/ Tick
    \/ UnmountStore

SpecStore == InitStore /\ [][NextStore]_vars

\* a render that is due is done, and a timer fires when the event loop is
\* free, which it is again and again
FairStore ==
    /\ WF_vars(Commit)
    /\ SF_vars(\E t \in timeouts : TimeoutFires(t))

SpecStoreFair == SpecStore /\ FairStore

----------------------------------------------------------------------------
(* Vocabulary of the properties of the section classifier: headings and    *)
(* bodies read off the lines of the summary.                               *)

SummaryLinesOf == SplitLines(summary)

\* the number of '#' a heading line of the revision may start with
HeadingLevels(rev) == IF rev = "r3" THEN {1, 2, 3} ELSE {3}

\* a heading line: the marker, whitespace, and some text
IsHeadingLine(rev, line) ==
    LET h == CountHashes(line, 1)
    IN /\ h \in HeadingLevels(rev)
       /\ h < Len(line)
       /\ IsSpace(line[h + 1])
       /\ SkipSpace(line, h + 1) <= Len(line)

\* marker and whitespace of a heading line
HeadingMarker(line) == SubSeq(line, 1, SkipSpace(line, CountHashes(line, 1) + 1) - 1)

\* the text of a heading line
HeadingText(line) == SubSeq(line, SkipSpace(line, CountHashes(line, 1) + 1), Len(line))

HeadingIndexes(rev, lines) == {i \in DOMAIN lines : IsHeadingLine(rev, lines[i])}

\* the labels of the revision's table that a text contains, letter case ignored
LabelsIn(rev, txt) ==
    {k \in DOMAIN SectionConfig(rev) : Includes(ToUpperCase(txt), SectionConfig(rev)[k].key)}

\* the index of the line that ends the body of the heading at line i
BodyEnd(rev, lines, i) ==
    LET later == {j \in HeadingIndexes(rev, lines) : j > i}
    IN IF later = {} THEN Len(lines) ELSE (CHOOSE j \in later : \A k \in later : j <= k) - 1

HasBody(rev, lines, i) == \E j \in (i + 1)..BodyEnd(rev, lines, i) : Trim(lines[j]) # <<>>

Titles(secs) == [i \in DOMAIN secs |-> secs[i].title]

\* every marker the parser acts on is a heading line: in r1 and r2 no "###" with
\* whitespace after it stands inside a line or without text, in r3 no marker line
\* is without text
MarkersAreHeadings ==
    IF revision = "r3"
    THEN \A i \in DOMAIN SummaryLinesOf :
            headerMatch(SummaryLinesOf[i]) # NoMatch => IsHeadingLine("r3", SummaryLinesOf[i])
    ELSE Len(SplitHeading(summary)) = Cardinality(HeadingIndexes(revision, SummaryLinesOf)) + 1

Rendered == pc = "rendered"

\* C1: (r2, r3) a summary in which no heading's text contains a category label,
\* a summary without any heading included, yields the empty section list
C1_NoLabelledHeadingNoSections ==
    (/\ Rendered
     /\ revision \in {"r2", "r3"}
     /\ \A i \in HeadingIndexes(revision, SummaryLinesOf) :
            LabelsIn(revision, HeadingText(SummaryLinesOf[i])) = {})
    => sections = <<>>

\* the single heading of the summary is its first line, it names two or more labels
\* and it has a body
OneHeadingTwoLabels ==
    /\ MarkersAreHeadings
    /\ HeadingIndexes(revision, SummaryLinesOf) = {1}
    /\ Cardinality(LabelsIn(revision, HeadingText(SummaryLinesOf[1]))) >= 2
    /\ HasBody(revision, SummaryLinesOf, 1)

\* C2: (r2, r3) a heading whose text contains two or more labels gets the label
\* declared first in SECTION_CONFIG, wherever the labels stand in the text
C2_FirstDeclaredLabelWins ==
    (Rendered /\ revision \in {"r2", "r3"} /\ OneHeadingTwoLabels)
    => /\ Len(sections) = 1
       /\ LET hits == LabelsIn(revision, HeadingText(SummaryLinesOf[1]))
          IN \E k \in hits : /\ \A j \in hits : k <= j
                             /\ sections[1].title = SectionConfig(revision)[k].key

\* KEY DEVELOPMENTS stands before COMMUNITY PULSE in the heading, after it in the table
C2_Witness ==
    /\ Rendered /\ revision = "r2" /\ OneHeadingTwoLabels
    /\ StartsWith(HeadingText(SummaryLinesOf[1]), KEY_DEVELOPMENTS)
    /\ sections[1].title = COMMUNITY_PULSE

\* the summary is one '###' heading whose text is a label, then a body without headings
OneLabelHeadingThenBody ==
    /\ MarkersAreHeadings
    /\ Len(SummaryLinesOf) >= 2
    /\ \E k \in DOMAIN SectionConfig(revision) :
           SummaryLinesOf[1] = <<"#", "#", "#", " ">> \o SectionConfig(revision)[k].key
    /\ HeadingIndexes(revision, SummaryLinesOf) = {1}
    /\ HasBody(revision, SummaryLinesOf, 1)

\* C3: (every revision) one '###' heading whose text is a label, followed by a body
\* that is not blank, yields exactly one section: its title is the label and its
\* content the body with the surrounding whitespace trimmed
C3_OneHeadingOneSection ==
    (Rendered /\ OneLabelHeadingThenBody)
    => /\ Len(sections) = 1
       /\ <<"#", "#", "#", " ">> \o sections[1].title = SummaryLinesOf[1]
       /\ sections[1].content = Trim(JoinLines(Tail(SummaryLinesOf)))

\* "### KEY DEVELOPMENTS\nSomething happened", with whitespace around the body
C3_Witness ==
    /\ Rendered /\ OneLabelHeadingThenBody
    /\ Len(sections) = 1
    /\ sections[1].title = KEY_DEVELOPMENTS
    /\ sections[1].content # JoinLines(Tail(SummaryLinesOf))
    /\ Len(sections[1].content) > 0

\* C4: (every revision) a heading whose body is empty after trimming yields no
\* section: a summary that starts with a heading (any summary in r3, where text
\* before the first heading is no part) has at most as many sections as it has
\* headings with a body
C4_EmptyBodyNoSection ==
    (/\ Rendered
     /\ MarkersAreHeadings
     /\ (revision = "r3" \/ IsHeadingLine(revision, SummaryLinesOf[1])))
    => Len(sections) <= Cardinality({i \in HeadingIndexes(revision, SummaryLinesOf) :
                                        HasBody(revision, SummaryLinesOf, i)})

\* a labelled heading with a blank line as its body, and nothing rendered for it
C4_Witness ==
    /\ Rendered
    /\ Len(SummaryLinesOf) = 3
    /\ \A i \in {1, 3} : /\ IsHeadingLine(revision, SummaryLinesOf[i])
                         /\ LabelsIn(revision, HeadingText(SummaryLinesOf[i])) # {}
    /\ SummaryLinesOf[2] = <<>>
    /\ sections = <<>>

\* variations of a heading text that change letter case or asterisk decoration only
LowerCased(s) == [i \in 1..Len(s) |-> LowerChar(s[i])]

\* an asterisk before, between and after the characters
Starred(s) == [i \in 1..(2 * Len(s) + 1) |-> IF i % 2 = 1 THEN "*" ELSE s[i \div 2]]

Variations(s) == {LowerCased(s), ToUpperCase(s), Starred(s), StripAsterisks(s)}

\* the variations that leave a heading a heading: they keep some text
KeepingVariations(s) == {LowerCased(s), ToUpperCase(s), Starred(s)}

\* the summaries obtained by varying the text of one heading line
VariedSummaries ==
    LET lines == SummaryLinesOf
    IN { JoinLines([lines EXCEPT ![i] = HeadingMarker(lines[i]) \o v]) :
           <<i, v>> \in UNION { {<<j, w>> : w \in KeepingVariations(HeadingText(lines[j]))} :
                                j \in HeadingIndexes(revision, lines) } }

\* C5: (r2, r3) the label a heading is assigned does not depend on the case of its
\* letters nor on asterisks in its text: every variation of a heading text is
\* assigned the entry the text is assigned, and the sections of the varied summary
\* carry the same titles
C5_CaseAndAsterisksIgnored ==
    (Rendered /\ revision \in {"r2", "r3"})
    => /\ \A i \in HeadingIndexes(revision, SummaryLinesOf) :
            \A v \in Variations(HeadingText(SummaryLinesOf[i])) :
               FindEntry(HeadingTitle(v), SectionConfig(revision))
                 = FindEntry(HeadingTitle(HeadingText(SummaryLinesOf[i])), SectionConfig(revision))
       /\ \A md \in VariedSummaries : Titles(parseSections(revision, md)) = Titles(sections)

\* "## **Community Pulse**" is classified COMMUNITY PULSE
C5_Witness ==
    /\ Rendered /\ revision = "r3"
    /\ \E i \in HeadingIndexes(revision, SummaryLinesOf) :
          /\ Includes(HeadingText(SummaryLinesOf[i]), <<"*", "*", "C", "o", "m">>)
          /\ HasBody(revision, SummaryLinesOf, i)
    /\ Len(sections) = 1
    /\ sections[1].title = COMMUNITY_PULSE

----------------------------------------------------------------------------
(* Vocabulary of the properties of the formatter: the lines of the content, *)
(* their markers, and what a block's markup shows.                         *)

Formatted == pc = "formatted"

ContentLines == SplitLines(text)

TrimmedLine(i) == Trim(ContentLines[i])

BeginsWithGlyph(t) == t # <<>> /\ t[1] \in {"-", BulletGlyph}

\* the length of the run of digits a text begins with
LeadingDigits(t) == Cardinality({n \in 1..Len(t) : \A k \in 1..n : t[k] \in Digits})

\* digits followed by '.'
BeginsWithOrdinal(t) ==
    LET n == LeadingDigits(t) IN n >= 1 /\ n < Len(t) /\ t[n + 1] = "."

\* a trimmed line without its first m characters and the whitespace after them
AfterMarker(t, m) == Trim(SubSeq(t, m + 1, Len(t)))

\* what the line says once its marker (glyph or ordinal) is taken away
Remainder(t) ==
    IF BeginsWithGlyph(t) THEN AfterMarker(t, 1)
    ELSE IF BeginsWithOrdinal(t) THEN AfterMarker(t, LeadingDigits(t) + 1)
    ELSE t

Occurrences(html, tag) ==
    {i \in 1..(Len(html) - Len(tag) + 1) : html[i] = tag[1] /\ SubSeq(html, i, i + Len(tag) - 1) = tag}

\* the characters of s at the indexes outside covered, in order
Without(s, covered) ==
    LET kept == SelectSeq([k \in 1..Len(s) |-> <<k, s[k]>>], LAMBDA q : q[1] \notin covered)
    IN [k \in 1..Len(kept) |-> kept[k][2]]

\* the markup without the emphasis and highlight spans' tags
WithoutSpans(html) ==
    Without(html,
            UNION { {j \in i..(i + Len(tag) - 1) : TRUE} :
                    <<i, tag>> \in UNION { {<<k, g>> : k \in Occurrences(html, g)} :
                                           g \in {EMPHASIS_OPEN, HIGHLIGHT_OPEN, SPAN_CLOSE} } })

\* the markup shows exactly the characters of txt, asterisks apart
ShowsText(html, txt) == StripAsterisks(WithoutSpans(html)) = StripAsterisks(txt)

\* the number of "**" markers of a text, counted from the left in every run of asterisks
MarkerCount(s) ==
    LET runStart(i) == CHOOSE j \in 1..i :
                          /\ \A k \in j..i : s[k] = "*"
                          /\ (j = 1 \/ s[j - 1] # "*")
    IN Cardinality({i \in 1..(Len(s) - 1) :
                      s[i] = "*" /\ s[i + 1] = "*" /\ (i - runStart(i)) % 2 = 0})

HasDigit(s) == \E i \in DOMAIN s : s[i] \in Digits

\* where a standalone number starts: a digit at the start or after whitespace
StandaloneStarts(s) == {i \in DOMAIN s : s[i] \in Digits /\ (i = 1 \/ IsSpace(s[i - 1]))}

\* last index of the numeric token at i: digits and commas, then a fraction
NumericTokenEnd(s, i) ==
    LET e1 == DigitCommaRunEnd(s, i + 1)
    IN IF e1 + 1 < Len(s) /\ s[e1 + 1] = "." /\ s[e1 + 2] \in Digits
       THEN DigitRunEnd(s, e1 + 2) ELSE e1

BulletLines == {i \in DOMAIN ContentLines : BeginsWithGlyph(TrimmedLine(i))}

OrdinalLines == {i \in DOMAIN ContentLines : BeginsWithOrdinal(TrimmedLine(i))}

\* C6: a line that begins with '-' or the bullet glyph gives a bullet block; its
\* markup shows the line without the glyph and the whitespace after it, holds one
\* emphasis span for every pair of "**" markers, and wraps every standalone number
\* in the highlight span, together with a '%' that follows it
C6_BulletLineMarkup ==
    Formatted =>
      \A i \in BulletLines :
         LET rest == AfterMarker(TrimmedLine(i), 1)
             html == blocks[i].html
         IN /\ blocks[i].kind = "bullet"
            /\ ShowsText(html, rest)
            /\ Cardinality(Occurrences(html, EMPHASIS_OPEN)) = MarkerCount(rest) \div 2
            /\ \A p \in StandaloneStarts(rest) :
                  LET e == DigitRunEnd(rest, p)
                      number == SubSeq(rest, p, e)
                  IN IF e < Len(rest) /\ rest[e + 1] = "%"
                     THEN Includes(html, HIGHLIGHT_OPEN \o number \o <<"%">> \o SPAN_CLOSE)
                     ELSE Includes(html, HIGHLIGHT_OPEN \o number)

\* "- **Revenue** grew 42%"
C6_Witness ==
    /\ Formatted
    /\ text = <<"-", " ", "*", "*", "R", "e", "v", "e", "n", "u", "e", "*", "*", " ", "g", "r", "e", "w", " ", "4", "2", "%">>
    /\ blocks[1].kind = "bullet"
    /\ blocks[1].html = EMPHASIS_OPEN \o <<"R", "e", "v", "e", "n", "u", "e">> \o SPAN_CLOSE
                          \o <<" ", "g", "r", "e", "w", " ">>
                          \o HIGHLIGHT_OPEN \o <<"4", "2", "%">> \o SPAN_CLOSE

\* C7: a line that begins with an ordinal marker gives a bullet block whose markup
\* shows the line without exactly that marker and the whitespace after it; when
\* the remainder holds no pair of "**" markers and no digit, the markup is the
\* remainder unchanged
C7_OrdinalLineMarkup ==
    Formatted =>
      \A i \in OrdinalLines :
         LET rest == AfterMarker(TrimmedLine(i), LeadingDigits(TrimmedLine(i)) + 1)
             html == blocks[i].html
         IN /\ blocks[i].kind = "bullet"
            /\ ShowsText(html, rest)
            /\ (MarkerCount(rest) < 2 /\ ~HasDigit(rest)) => html = rest

\* C8: one block per line that is not blank and none for a blank line; a block is a
\* bullet block exactly when the trimmed line begins with '-', the bullet glyph or
\* an ordinal marker; a paragraph block's markup keeps the whole line
C8_OneBlockPerLine ==
    Formatted =>
      /\ DOMAIN blocks = DOMAIN ContentLines
      /\ \A i \in DOMAIN ContentLines :
            LET t == TrimmedLine(i)
            IN /\ blocks[i].kind = "null" <=> t = <<>>
               /\ blocks[i].kind = "bullet" <=> (BeginsWithGlyph(t) \/ BeginsWithOrdinal(t))
               /\ blocks[i].kind = "paragraph" =>
                     /\ ShowsText(blocks[i].html, t)
                     /\ (MarkerCount(t) < 2 /\ ~HasDigit(t)) => blocks[i].html = t

\* a bullet line, a blank line and a paragraph line in one content
C8_Witness ==
    /\ Formatted
    /\ Len(blocks) = 3
    /\ blocks[1].kind = "bullet"
    /\ BeginsWithOrdinal(TrimmedLine(1))
    /\ blocks[2].kind = "null"
    /\ blocks[3].kind = "paragraph"
    /\ blocks[3].html = TrimmedLine(3)

\* every standalone numeric token that one of the given suffixes follows stands,
\* with the suffix, in one highlight span
SuffixedNumbersHighlighted(suffixes) ==
    \A i \in DOMAIN ContentLines :
       LET rest == Remainder(TrimmedLine(i))
       IN \A p \in StandaloneStarts(rest) :
             LET e == NumericTokenEnd(rest, p)
             IN (e < Len(rest) /\ rest[e + 1] \in suffixes)
                => Includes(blocks[i].html, HIGHLIGHT_OPEN \o SubSeq(rest, p, e + 1) \o SPAN_CLOSE)

\* C9 as stated: the suffixes are '+', '%', 'k', 'M', 'B' and the two arrows
C9_SuffixInSpan_asStated ==
    Formatted => SuffixedNumbersHighlighted({"+", "%", "k", "M", "B", UpArrow, DownArrow})

\* C9, amended: the thousands suffix is the capital 'K'; a number followed by 'k'
\* is highlighted without the 'k'
C9_SuffixInSpan ==
    Formatted => SuffixedNumbersHighlighted({"+", "%", "K", "M", "B", UpArrow, DownArrow})

\* "3K" and "7+ 8M 9B 1^ 6v" on one line, each number in a span with its suffix
C9_Witness ==
    /\ Formatted
    /\ Len(blocks) = 1
    /\ \A tok \in { <<"3", "K">>, <<"7", "+">>, <<"8", "M">>, <<"9", "B">>,
                    <<"1", UpArrow>>, <<"6", DownArrow>> } :
          Includes(blocks[1].html, HIGHLIGHT_OPEN \o tok \o SPAN_CLOSE)

\* the tags of the highlight spans in a block's markup: every opening tag and the
\* closing tag that follows it
HighlightTagIndexes(html) ==
    LET opens == Occurrences(html, HIGHLIGHT_OPEN)
        closes == Occurrences(html, SPAN_CLOSE)
    IN UNION { (q..(q + Len(HIGHLIGHT_OPEN) - 1))
                 \cup LET c == MinOf({k \in closes : k > q}) IN c..(c + Len(SPAN_CLOSE) - 1) :
               q \in opens }

\* the highlight span opened at q stands between a '<' of the text highlightNumbers
\* received and the '>' that follows it
InsideReceivedTag(html, q) ==
    LET inserted == HighlightTagIndexes(html)
        received(k) == k \in DOMAIN html /\ k \notin inserted
    IN /\ \E a \in 1..(q - 1) :
            /\ received(a) /\ html[a] = "<"
            /\ \A m \in (a + 1)..(q - 1) : received(m) => html[m] # ">"
       /\ \E b \in (q + 1)..Len(html) : received(b) /\ html[b] = ">"

\* C10: no highlight span is inserted inside a tag of the text highlightNumbers
\* receives, be it a tag of an emphasis span or a tag the line held already
C10_NoHighlightInsideTag ==
    Formatted =>
      \A i \in DOMAIN blocks :
         \A q \in Occurrences(blocks[i].html, HIGHLIGHT_OPEN) : ~InsideReceivedTag(blocks[i].html, q)

\* C11: formatBullets gives a block for every line of any content; on each line
\* the "**" markers pair up from the left within that line alone: every complete
\* pair is an emphasis span, a marker left over stays in the markup as a literal
\* "**" after all the spans of the line, and no marker pairs with one of another line
C11_UnmatchedMarkerKept ==
    Formatted =>
      /\ DOMAIN blocks = DOMAIN ContentLines
      /\ \A i \in DOMAIN ContentLines :
            LET t == TrimmedLine(i)
                m == MarkerCount(t)
                html == blocks[i].html
                spans == Occurrences(html, EMPHASIS_OPEN)
            IN t # <<>> =>
                 /\ Cardinality(spans) = m \div 2
                 /\ MarkerCount(html) = m % 2
                 /\ \A p \in StarPairs(html), q \in spans : q < p

\* a line with a complete pair and then an unmatched marker, followed by a line
\* that holds one marker
C11_Witness ==
    /\ Formatted
    /\ Len(blocks) = 2
    /\ MarkerCount(TrimmedLine(1)) = 3
    /\ MarkerCount(TrimmedLine(2)) = 1
    /\ Cardinality(Occurrences(blocks[1].html, EMPHASIS_OPEN)) = 1
    /\ blocks[2].html = <<"*", "*">>

\* the line with its run of '#' replaced by a run of h
Relevelled(line, h) == [k \in 1..h |-> "#"] \o SubSeq(line, CountHashes(line, 1) + 1, Len(line))

RECURSIVE RelevelledFrom(_, _)
\* the line sequences obtained by giving every heading line from index i on any of
\* the levels '#', '##', '###'
RelevelledFrom(lines, i) ==
    IF i > Len(lines) THEN {lines}
    ELSE IF IsHeadingLine("r3", lines[i])
         THEN UNION { RelevelledFrom([lines EXCEPT ![i] = Relevelled(lines[i], h)], i + 1) :
                      h \in HeadingLevels("r3") }
         ELSE RelevelledFrom(lines, i + 1)

\* C16: (r3) a line of one, two or three '#', whitespace and text is a heading
\* whose title is that text, and giving the headings of a summary any other of
\* the three levels leaves the sections parseSections returns unchanged
C16_HeadingLevelIrrelevant ==
    (Rendered /\ revision = "r3")
    => /\ \A i \in DOMAIN SummaryLinesOf :
            IsHeadingLine("r3", SummaryLinesOf[i])
            => /\ headerMatch(SummaryLinesOf[i]) # NoMatch
               /\ HeadingTitle(headerMatch(SummaryLinesOf[i]))
                    = HeadingTitle(HeadingText(SummaryLinesOf[i]))
       /\ \A ls \in RelevelledFrom(SummaryLinesOf, 1) :
            parseSections_r3(JoinLines(ls)) = sections

\* a section opened by a heading of level '#' or '##', in a summary whose
\* headings are of two different levels
C16_Witness ==
    /\ Rendered /\ revision = "r3"
    /\ Len(SummaryLinesOf) = 3
    /\ IsHeadingLine("r3", SummaryLinesOf[1])
    /\ CountHashes(SummaryLinesOf[1], 1) < 3
    /\ IsHeadingLine("r3", SummaryLinesOf[3])
    /\ CountHashes(SummaryLinesOf[3], 1) # CountHashes(SummaryLinesOf[1], 1)
    /\ Len(sections) = 1
    /\ Cardinality(RelevelledFrom(SummaryLinesOf, 1)) = 9

\* C17: (r1) a heading whose text contains no label of the table yields no
\* section: in a summary that starts with a heading, every section returned
\* carries a title that contains a label
C17_UnlabelledHeadingDropped_r1 ==
    (/\ Rendered /\ revision = "r1"
     /\ MarkersAreHeadings
     /\ IsHeadingLine("r1", SummaryLinesOf[1]))
    => \A k \in DOMAIN sections : FindEntry(sections[k].title, sectionMap) # 0

----------------------------------------------------------------------------
(* Properties of the briefing requests                                      *)

\* the request of caller c fails in this step: fetch rejects, or the body
\* received is not JSON and res.json() rejects
FetchFails(c) ==
    \/ requests[c].state = "sent" /\ requests'[c].state = "failed"
    \/ requests[c] = Request("received", NotJson) /\ requests'[c].state = "settled"

\* the request of caller c delivers its JSON value to the mounted component
FetchDelivers(c) ==
    /\ pc = "mounted"
    /\ requests[c].state = "received" /\ requests[c].body # NotJson
    /\ requests'[c].state = "settled"

\* C13: a step in which a request for the briefing fails (network error, or a
\* body that is not JSON) leaves the briefing as it was, whatever requests
\* succeeded or failed before
C13_FailedFetchKeepsBriefing ==
    [][\A c \in Callers : FetchFails(c) => briefing' = briefing]_vars

\* a briefing is shown and the refresh that followed got a body that is not JSON
C13_Witness ==
    /\ pc = "mounted"
    /\ briefing \in Documents
    /\ requests["load"].state = "settled"
    /\ requests["refresh"] = Request("settled", NotJson)
    /\ ~refreshing

\* C15: when the JSON delivered is an array with a first element the briefing
\* becomes that element, and when it is a document the briefing becomes the
\* document; so the array of one document and the document give the same briefing
C15_ArrayUnwrapped ==
    [][\A c \in Callers :
         FetchDelivers(c)
         => LET data == requests[c].body
            IN /\ (data.tag = "array" /\ Len(data.items) > 0) => briefing' = data.items[1]
               /\ data \in Documents => briefing' = data
               /\ \A d \in Documents : data \in {d, ArrayOf(<<d>>)} => briefing' = d]_vars

\* the initial load got an array of one document, which is the briefing
C15_Witness ==
    /\ pc = "mounted"
    /\ requests["refresh"].state = "idle"
    /\ \E d \in Documents : requests["load"] = Request("settled", ArrayOf(<<d>>)) /\ briefing = d
    /\ ~loading

----------------------------------------------------------------------------
(* Properties of the action items, the notes and the store                  *)

\* C14: no exception of the store escapes: not from the reads at mount, not
\* from the write of the action items after a change, not from the write of the
\* notes when the timer fires
C14_StorageFailuresIgnored == ~uncaught

\* the persist effect for a change of the action items runs to its end in this step
ItemsPersisted == pc = "mounted" /\ "actionItems" \in changed /\ changed' = {} /\ pc' = "mounted"

\* C18: when the persist effect for a change of the action items has run, the
\* store holds under LS_KEY the JSON text of the list in memory, which parses
\* back to the same items in the same order with the same flags; until the next
\* change of the list nothing else writes under the key
C18_StoredListIsCurrentList ==
    [][/\ ItemsPersisted
          => /\ localStorage'[LS_KEY] = Str(JSONStringify(actionItems'))
             /\ JSONParse(localStorage'[LS_KEY].chars) = Parsed(actionItems')
       /\ (actionItems' = actionItems /\ "actionItems" \notin changed)
          => localStorage'[LS_KEY] = localStorage[LS_KEY]]_vars

\* after adds and a toggle: two items, the first completed, in store and memory
C18_Witness ==
    /\ Idle
    /\ IsList(actionItems)
    /\ Len(actionItems) = 2
    /\ actionItems[1].completed /\ ~actionItems[2].completed
    /\ actionItems[1].id # DecimalString(0)
    /\ localStorage[LS_KEY] = Str(JSONStringify(actionItems))

\* the store holds a list that can be read and parsed
StoredListReadable ==
    /\ ~ReadThrows(storageAccess)
    /\ localStorage[LS_KEY] # Null
    /\ localStorage[LS_KEY].chars # <<>>
    /\ JSONParse(localStorage[LS_KEY].chars).ok

\* C19: the effects of the mount write nothing under LS_KEY, and a stored list
\* that can be read is the list in memory after them; every write under the key
\* happens after the mount and writes the list then in memory
C19_MountKeepsStoredItems ==
    [][/\ (pc = "created" /\ pc' # "created")
          => /\ localStorage'[LS_KEY] = localStorage[LS_KEY]
             /\ StoredListReadable => actionItems' = JSONParse(localStorage[LS_KEY].chars).value
       /\ localStorage'[LS_KEY] # localStorage[LS_KEY]
          => /\ pc = "mounted" /\ ~isInitialMount
             /\ localStorage'[LS_KEY] = Str(JSONStringify(actionItems))]_vars

\* mounted on a store that held one completed item: the item is in memory and
\* still in the store
C19_Witness ==
    /\ Idle
    /\ ~isInitialMount
    /\ now = 1
    /\ actionItems = <<ActionItem(DecimalString(0), <<Backslash, Quote>>, TRUE)>>
    /\ localStorage[LS_KEY] = Str(JSONStringify(actionItems))

\* the render after a change of the notes runs the notes effect in this step
NotesScheduled == pc = "mounted" /\ "notes" \in changed /\ changed' = {} /\ pc' = "mounted"

\* at most one write of the notes is pending; the render after a change of the
\* notes leaves exactly the timer for the new value; every write under
\* LS_NOTES_KEY writes the notes in memory
NotesWritesDebounced ==
    /\ [](Cardinality(timeouts) <= 1)
    /\ [][/\ NotesScheduled => \E t \in timeouts' : timeouts' = {t} /\ t.notes = notes'
          /\ localStorage'[LS_NOTES_KEY] # localStorage[LS_NOTES_KEY]
             => localStorage'[LS_NOTES_KEY] = Str(notes)]_vars

----------------------------------------------------------------------------
(* Properties of the initial load and of the refreshes                      *)

\* the first fetch failed: network error, or a body that is not JSON
FirstFetchFailed ==
    \/ requests["load"].state = "failed"
    \/ requests["load"] = Request("settled", NotJson)

\* the initial load ends while the component is mounted, and loading is never
\* set to true
LoadingEnds ==
    /\ <>(pc = "unmounted" \/ ~loading)
    /\ [][~loading => ~loading']_vars

\* after a failed first fetch there is no briefing, and the mounted component
\* shows the placeholder
FailedLoadShowsPlaceholder ==
    [](FirstFetchFailed => briefing = Null /\ (pc = "mounted" => View = "placeholder"))

\* no step of an unmounted component sets the loading flag
NoSetLoadingAfterUnmount == [][pc = "unmounted" => loading' = loading]_vars

\* C21: the initial load ends while the component is mounted, whether the
\* first fetch succeeds or fails: loading becomes false and is never true
\* again; after a failed first fetch the briefing is absent and the
\* placeholder is shown; after unmount the loading flag is not set any more
C21_InitialLoadEnds ==
    /\ LoadingEnds
    /\ FailedLoadShowsPlaceholder
    /\ NoSetLoadingAfterUnmount

\* the earliest revision was unmounted with its request under way, and the
\* request's continuation has cleared the loading flag
C21_SetAfterUnmount ==
    /\ revision = "r1"
    /\ pc = "unmounted"
    /\ requests["load"].state \in {"failed", "settled"}
    /\ ~loading

\* C23: once a briefing is displayed, no outcome of a later refresh (any JSON
\* body, the empty array and null included, or a failure) leaves the mounted
\* dashboard without a briefing: the briefing is never null or undefined again
C23_BriefingNeverLost ==
    [][(pc = "mounted" /\ View = "dashboard") => IsTruthy(briefing')]_vars

\* a briefing was displayed, and the refresh that followed was answered with
\* the empty array: the briefing is undefined and the placeholder is shown
C23_LostOnEmptyArray ==
    /\ pc = "mounted"
    /\ requests["load"].state = "settled" /\ IsTruthy(Unwrap(requests["load"].body))
    /\ requests["refresh"] = Request("settled", ArrayOf(<<>>))
    /\ briefing = Undefined
    /\ View = "placeholder"

\* the fetch of caller c is under way
InFlight(c) == requests[c].state \in {"sent", "received"}

\* a fetch is started for caller c in this step
FetchStarts(c) == requests'[c].state = "sent" /\ requests'[c] # requests[c]

\* C24: at most one refresh fetch is under way: a refresh starts a fetch only
\* when none is under way and refreshing is false; refreshing is true exactly
\* while the fetch of a refresh is under way, and the step that settles the
\* fetch, with success or failure, sets it to false
C24_OneRefreshInFlight ==
    /\ [](refreshing <=> InFlight("refresh"))
    /\ [][FetchStarts("refresh") => (~InFlight("refresh") /\ ~refreshing)]_vars
    /\ [][(InFlight("refresh") /\ requests'["refresh"].state \in {"settled", "failed"})
            => ~refreshing']_vars

\* the fetch of a refresh has failed with the briefing displayed: refreshing
\* is false again
C24_Witness ==
    /\ pc = "mounted"
    /\ View = "dashboard"
    /\ requests["refresh"].state = "failed"
    /\ ~refreshing

----------------------------------------------------------------------------
(* Properties of the action items at mount and under the handlers           *)

\* the component runs the effects of its mount in this step
Mounts == pc = "created" /\ pc' # "created"

\* what the store holds under LS_KEY is the JSON text of a list of action items
StoredIsItemList ==
    /\ localStorage[LS_KEY] # Null
    /\ LET parsed == JSONParse(localStorage[LS_KEY].chars)
       IN /\ parsed.ok
          /\ IsList(parsed.value)
          /\ JSONStringify(parsed.value) = localStorage[LS_KEY].chars

\* C22: when the store holds under LS_KEY something that is not the JSON text
\* of a list of action items (text that does not parse, or JSON that is not a
\* list), the list in memory is the empty list after the mount, and rendering
\* the action items throws nothing
C22_CorruptStoredItemsIgnored ==
    [][/\ (Mounts /\ ~StoredIsItemList) => (IsList(actionItems') /\ actionItems' = <<>>)
       /\ (Idle /\ ~IsList(actionItems)) => (uncaught' => uncaught)]_vars

\* mounted on a store that held the text null: the value in memory is null
C22_NullLoaded ==
    /\ pc = "mounted"
    /\ actionItems = NotList(<<"n", "u", "l", "l">>)

\* C25: no two items of the list in memory have the same id, after any adds,
\* toggles, deletes and loads from the store
C25_IdsUnique ==
    IsList(actionItems)
    => \A i, j \in DOMAIN actionItems : i # j => actionItems[i].id # actionItems[j].id

\* two adds were handled within one millisecond: both items have the id of
\* that millisecond
C25_SameMillisecond ==
    /\ pc = "mounted"
    /\ IsList(actionItems)
    /\ Len(actionItems) = 2
    /\ actionItems[1].id = DecimalString(now)
    /\ actionItems[2].id = DecimalString(now)

\* the indexes of the items whose id is not id
Others(items, id) == {i \in DOMAIN items : items[i].id # id}

\* no item has the id
Absent(items, id) == Others(items, id) = DOMAIN items

\* C26: toggleActionItem(id) keeps the length of the list and every item whose
\* id is not id; deleteActionItem(id) leaves exactly the items whose id is not
\* id, unchanged and in their order; with an id no item has, both leave the
\* list as it was
C26_OtherItemsUntouched ==
    [][\A id \in ItemIds :
         /\ toggleActionItem(id)
            => /\ Len(actionItems') = Len(actionItems)
               /\ \A i \in Others(actionItems, id) : actionItems'[i] = actionItems[i]
               /\ Absent(actionItems, id) => actionItems' = actionItems
         /\ deleteActionItem(id)
            => /\ Len(actionItems') = Cardinality(Others(actionItems, id))
               /\ \A k \in DOMAIN actionItems' :
                     actionItems'[k] = actionItems[Nth(Others(actionItems, id), k)]
               /\ Absent(actionItems, id) => actionItems' = actionItems]_vars

\* of two items with different ids the second has been toggled
C26_Witness ==
    /\ pc = "mounted"
    /\ changed = {"actionItems"}
    /\ IsList(actionItems)
    /\ Len(actionItems) = 2
    /\ actionItems[1].id # actionItems[2].id
    /\ ~actionItems[1].completed /\ actionItems[2].completed
    /\ actionItems[2].id # DecimalString(0)

----------------------------------------------------------------------------
(* Properties of the source feed and of the cards (latest revision)         *)

\* the keys of the tabs that are shown
ShownTabs ==
    LET tabs == availableFilters(Sources(briefing))
    IN {tabs[i].key : i \in DOMAIN tabs}

\* C27: while the dashboard is displayed, the selected filter is the key of a
\* tab that is shown (the tab "all", or a tab some source of the briefing
\* matches), after any selections and refreshes
C27_SelectedFilterShown ==
    (pc = "mounted" /\ View = "dashboard" /\ Len(Sources(briefing)) > 0)
    => sourceFilter \in ShownTabs

\* the tab selected in an earlier briefing has no source in the briefing the
\* refresh brought: no tab that is shown is the selected one
C27_SelectedTabGone ==
    /\ pc = "mounted"
    /\ View = "dashboard"
    /\ requests["refresh"].state = "settled"
    /\ sourceFilter = "reddit"
    /\ ShownTabs = {"all", "hackernews", "research"}

\* how often the section sec is among secs
Count(secs, sec) == Cardinality({i \in DOMAIN secs : secs[i] = sec})

\* C28: every section parseSections returns is shown exactly once, as the
\* Quick Brief card or as one extended card, for every summary, one with
\* several headings of one category included
C28_EverySectionShownOnce ==
    (revision = "r3" /\ pc = "rendered")
    => /\ Len(Cards(sections)) = Len(sections)
       /\ \A i \in DOMAIN sections :
             Count(Cards(sections), sections[i]) = Count(sections, sections[i])

\* two headings QUICK BRIEF with different bodies: two sections are returned
\* and one card is shown
C28_SecondQuickBriefLost ==
    /\ revision = "r3" /\ pc = "rendered"
    /\ Len(sections) = 2
    /\ sections[1].title = QUICK_BRIEF /\ sections[2].title = QUICK_BRIEF
    /\ sections[1].content # sections[2].content
    /\ Cards(sections) = <<sections[1]>>

----------------------------------------------------------------------------
(* Properties of the bodies of the sections                                 *)

\* the lines between the heading at line i and the next heading line or the
\* end of the text, joined and trimmed
BodyOf(rev, lines, i) == Trim(JoinLines(SubSeq(lines, i + 1, BodyEnd(rev, lines, i))))

\* the heading lines that make a section: the text has a label, the body is
\* not blank
SectionHeadings(rev, lines) ==
    {i \in HeadingIndexes(rev, lines) :
        /\ LabelsIn(rev, StripAsterisks(HeadingText(lines[i]))) # {}
        /\ BodyOf(rev, lines, i) # <<>>}

\* the bodies of those headings, from the first to the last
WholeLineBodies(rev, lines) ==
    [k \in 1..Cardinality(SectionHeadings(rev, lines)) |->
        BodyOf(rev, lines, Nth(SectionHeadings(rev, lines), k))]

\* C29: (r2, r3) the body of each section is the trimmed join of the whole
\* lines between its heading line and the next heading line or the end of the
\* text; the text before the first heading line is in no section and makes no
\* section
C29_BodiesAreWholeLines ==
    (revision \in {"r2", "r3"} /\ Rendered)
    => [i \in DOMAIN sections |-> sections[i].content] = WholeLineBodies(revision, SummaryLinesOf)

\* (r2) a section was made of the text before the first heading line
C29_SectionWithoutHeading ==
    /\ revision = "r2" /\ Rendered
    /\ HeadingIndexes("r2", SummaryLinesOf) = {}
    /\ Len(sections) = 1

====
